---------------------------- MODULE Spec2Model ----------------------------
(***************************************************************************)
(* A model of termbox-rs, the Rust wrapper around the termbox terminal     *)
(* driver.  The repository holds two generations of the wrapper:           *)
(*                                                                         *)
(*   "root"  : src/lib.rs      (Termbox::new / close, is_open field, the   *)
(*             blit written in Rust, tb_event::to_safe_event)              *)
(*   "crate" : src/src/lib.rs + src/src/internal.rs  (Termbox::open, the   *)
(*             Lock token, Event::from_raw, cell_buffer)                   *)
(*                                                                         *)
(* The variable impl says which of the two is the program; it is chosen in *)
(* Init and never changes.  The driver (tb_init, tb_shutdown, tb_width,    *)
(* ...) is external: its return values are nondeterministic inputs.        *)
(***************************************************************************)
EXTENDS Integers, Sequences, FiniteSets, TLC

VARIABLES
  impl,        \* "root" or "crate"
  \* ---- session lifecycle (Spec)
  LOCK_FLAG,   \* internal.rs:12 LOCK_FLAG, lib.rs:20 _is_open
  tb,          \* the driver: "down" or "up" (between tb_init = 0 and tb_shutdown)
  pc,          \* per thread: where it is inside open/new/close/drop
  handle,      \* per thread: its Termbox value: "none", "open", "closed", "dropped"
  result,      \* per thread: what its last open()/new() returned
  init_ret,    \* per thread: what tb_init returned in its last open()/new()
  closes,      \* per thread: explicit close() calls on its handle
  shutdowns,   \* per thread: tb_shutdown calls made for its session
  releases,    \* per thread: resets of the flag made for its session
  \* ---- the display buffer (SpecBlit, SpecView)
  ptr_bits,    \* width of usize on the target: 32 or 64
  is_open,     \* the handle's is_open field (src/lib.rs:171); a crate handle is open
  bw,          \* what tb_width() returns now
  bh,          \* what tb_height() returns now
  buf,         \* the driver's cell buffer, row-major, cell i at index i
  req,         \* the arguments of the last buffer call
  out,         \* what the last buffer call did
  view,        \* the last cell_buffer / cell_buffer_mut call and the slice it made
  \* ---- events (SpecEvents)
  call,        \* the last event call: "none", "poll_event", "peek_event"
  ret,         \* what tb_poll_event / tb_peek_event returned in it
  raw,         \* the record the driver filled in
  dec,         \* what Event::from_raw / to_safe_event made of the record
  ev,          \* what the call gave its caller
  nreads,      \* how many times the call read the driver
  \* ---- modes (SpecCodec, SpecModes)
  cq,            \* the last mode conversion: its argument and its result
  tb_inputmode,  \* the driver's input mode
  tb_outputmode, \* the driver's output mode
  asked,         \* the arguments of the latest set_input_mode / set_mouse_enabled
  mq             \* the last mode call on the session and what it returned

lifeVars == <<LOCK_FLAG, tb, pc, handle, result, init_ret, closes, shutdowns, releases>>
bufVars == <<ptr_bits, is_open, bw, bh, buf, req, out>>
evVars == <<call, ret, raw, dec, ev, nreads>>
modeVars == <<cq, tb_inputmode, tb_outputmode, asked, mq>>
vars == <<impl, lifeVars, bufVars, view, evVars, modeVars>>

\* What the lifecycle, the buffer, the view, the event and the mode
\* operations leave alone.
notLife == <<impl, bufVars, view, evVars, modeVars>>
notBuf == <<impl, lifeVars, view, evVars, modeVars>>
notView == <<impl, lifeVars, evVars, modeVars, ptr_bits, is_open, buf, req, out>>
notEv == <<impl, lifeVars, bufVars, view, modeVars>>
notMode == <<impl, lifeVars, bufVars, view, evVars>>

Impls == {"root", "crate"}

(***************************************************************************)
(* Bounds of the model.                                                    *)
(***************************************************************************)
NThreads == 2
MaxCloses == 2
MaxW == 3
MaxH == 2
MaxWritten == 2

Threads == 1..NThreads

(***************************************************************************)
(* Driver constants.                                                       *)
(***************************************************************************)
TB_EUNSUPPORTED_TERMINAL == -1
TB_EFAILED_TO_OPEN_TTY == -2
TB_EPIPE_TRAP_ERROR == -3

\* What tb_init may return: success, the three known failures, and two
\* values outside the known set (one negative, one positive).
InitCodes == {0, TB_EUNSUPPORTED_TERMINAL, TB_EFAILED_TO_OPEN_TTY,
              TB_EPIPE_TRAP_ERROR, -4, 1}

\* init_ret holds the set of codes tb_init returned in the call: none or one.
NoCode == {}

(***************************************************************************)
(* The process lock.                                                       *)
(***************************************************************************)
\* A load where the code swaps: the flag is read and never set.
Lock_acquire_load(flag) == [flag |-> flag, some |-> ~flag]

\* internal.rs:25  LOCK_FLAG.swap(true): the flag is true afterwards, and a
\* Lock is returned iff it was false before.  lib.rs:278 is the same swap.
Lock_acquire(flag) == [flag |-> TRUE, some |-> ~flag]

\* A drop that leaves the flag as it is.
Lock_drop_keeps(flag) == flag

\* internal.rs:37  LOCK_FLAG.store(false); lib.rs:229 _is_open.store(false).
Lock_drop(flag) == FALSE

(***************************************************************************)
(* The result of initialisation.                                           *)
(***************************************************************************)
\* src/src/lib.rs:151  InitError::as_str
InitError_as_str(e) ==
  CASE e = "Locked" -> "locked"
    [] e = "UnsupportedTerminal" -> "unsupported terminal"
    [] e = "FailedToOpenTty" -> "failed to open tty"
    [] e = "PipeTrapError" -> "pipe trap error"

\* src/src/lib.rs:162  InitError::from_raw: "None" for a code it does not know
InitError_from_raw(n) ==
  CASE n = TB_EUNSUPPORTED_TERMINAL -> "UnsupportedTerminal"
    [] n = TB_EFAILED_TO_OPEN_TTY -> "FailedToOpenTty"
    [] n = TB_EPIPE_TRAP_ERROR -> "PipeTrapError"
    [] OTHER -> "None"

Err(msg) == "Err: " \o msg
Panic == "panic"

\* src/src/lib.rs:479-482: the match on tb_init's result in Termbox::open.
\* unwrap() of None panics; the local `lock` is dropped on every path that
\* does not move it into the Termbox, the unwinding one included.
open_match(n) ==
  IF n = 0 THEN [result |-> "Ok", session |-> TRUE, unlock |-> FALSE]
  ELSE IF InitError_from_raw(n) = "None"
       THEN [result |-> Panic, session |-> FALSE, unlock |-> TRUE]
       ELSE [result |-> Err(InitError_as_str(InitError_from_raw(n))),
             session |-> FALSE, unlock |-> TRUE]

\* Termbox::new whose catch-all branch forgets the store(false).
new_match_leak(n) ==
  CASE n = 0 -> [result |-> "Ok", session |-> TRUE, unlock |-> FALSE]
    [] n = TB_EUNSUPPORTED_TERMINAL ->
         [result |-> Err("unsupported terminal"), session |-> FALSE, unlock |-> TRUE]
    [] n = TB_EFAILED_TO_OPEN_TTY ->
         [result |-> Err("failed to open tty"), session |-> FALSE, unlock |-> TRUE]
    [] n = TB_EPIPE_TRAP_ERROR ->
         [result |-> Err("pipe trap error"), session |-> FALSE, unlock |-> TRUE]
    [] OTHER ->
         [result |-> Err("tb_init returned n"), session |-> FALSE, unlock |-> FALSE]

\* src/lib.rs:282-302: the match on tb_init's result in Termbox::new; every
\* failing branch stores false into _is_open before it returns.  The code
\* formats the unknown code into the message; the model keeps the code in
\* init_ret.
new_match(n) ==
  CASE n = 0 -> [result |-> "Ok", session |-> TRUE, unlock |-> FALSE]
    [] n = TB_EUNSUPPORTED_TERMINAL ->
         [result |-> Err("unsupported terminal"), session |-> FALSE, unlock |-> TRUE]
    [] n = TB_EFAILED_TO_OPEN_TTY ->
         [result |-> Err("failed to open tty"), session |-> FALSE, unlock |-> TRUE]
    [] n = TB_EPIPE_TRAP_ERROR ->
         [result |-> Err("pipe trap error"), session |-> FALSE, unlock |-> TRUE]
    [] OTHER ->
         [result |-> Err("tb_init returned n"), session |-> FALSE, unlock |-> TRUE]

\* src/src/lib.rs:476 and src/lib.rs:280: what a failed acquisition returns
Locked_result == IF impl = "crate" THEN Err(InitError_as_str("Locked"))
                 ELSE Err("only one instance of Termbox is allowed")

(***************************************************************************)
(* Lifecycle actions.  A thread's steps are the accesses to what it shares *)
(* with the others: the flag and the driver.                               *)
(***************************************************************************)
LifeInit ==
  /\ LOCK_FLAG = FALSE
  /\ tb = "down"
  /\ pc = [t \in Threads |-> "idle"]
  /\ handle = [t \in Threads |-> "none"]
  /\ result = [t \in Threads |-> "none"]
  /\ init_ret = [t \in Threads |-> NoCode]
  /\ closes = [t \in Threads |-> 0]
  /\ shutdowns = [t \in Threads |-> 0]
  /\ releases = [t \in Threads |-> 0]

\* First step of open()/new(): the swap on the flag.
Acquire(t) ==
  /\ pc[t] = "idle"
  /\ handle[t] \in {"none", "dropped"}
  /\ LET r == Lock_acquire(LOCK_FLAG) IN
       /\ LOCK_FLAG' = r.flag
       /\ IF r.some
          THEN /\ pc' = [pc EXCEPT ![t] = "init"]
               /\ result' = [result EXCEPT ![t] = "none"]
          ELSE /\ pc' = pc
               /\ result' = [result EXCEPT ![t] = Locked_result]
  /\ init_ret' = [init_ret EXCEPT ![t] = NoCode]
  /\ handle' = [handle EXCEPT ![t] = "none"]
  /\ closes' = [closes EXCEPT ![t] = 0]
  /\ shutdowns' = [shutdowns EXCEPT ![t] = 0]
  /\ releases' = [releases EXCEPT ![t] = 0]
  /\ UNCHANGED <<notLife, tb>>

\* src/src/lib.rs:471-477  Termbox::open, up to the lock
open_acquire(t) == impl = "crate" /\ Acquire(t)

\* src/lib.rs:276-281  Termbox::new, up to the swap
new_swap(t) == impl = "root" /\ Acquire(t)

\* Second step: tb_init() returns n and the match decides.
InitStep(t, n, m) ==
  /\ pc[t] = "init"
  /\ tb' = IF n = 0 THEN "up" ELSE tb
  /\ init_ret' = [init_ret EXCEPT ![t] = {n}]
  /\ result' = [result EXCEPT ![t] = m.result]
  /\ handle' = [handle EXCEPT ![t] = IF m.session THEN "open" ELSE "none"]
  /\ pc' = [pc EXCEPT ![t] = IF m.unlock THEN "fail" ELSE "idle"]
  /\ UNCHANGED <<notLife, LOCK_FLAG, closes, shutdowns, releases>>

\* src/src/lib.rs:479-482
open_init(t) == impl = "crate" /\ \E n \in InitCodes : InitStep(t, n, open_match(n))

\* src/lib.rs:282-302
new_init(t) == impl = "root" /\ \E n \in InitCodes : InitStep(t, n, new_match(n))

\* Last step of a failed open(): `lock` goes out of scope (by return or by
\* unwinding) and Drop for Lock resets the flag.  src/src/lib.rs:481
open_unlock(t) ==
  /\ impl = "crate"
  /\ pc[t] = "fail"
  /\ LOCK_FLAG' = Lock_drop(LOCK_FLAG)
  /\ pc' = [pc EXCEPT ![t] = "idle"]
  /\ UNCHANGED <<notLife, tb, handle, result, init_ret, closes, shutdowns, releases>>

\* Last step of a failed new(): _is_open.store(false) of the branch taken.
\* src/lib.rs:287, 291, 295, 299
new_store(t) ==
  /\ impl = "root"
  /\ pc[t] = "fail"
  /\ LOCK_FLAG' = Lock_drop(LOCK_FLAG)
  /\ pc' = [pc EXCEPT ![t] = "idle"]
  /\ UNCHANGED <<notLife, tb, handle, result, init_ret, closes, shutdowns, releases>>

\* close() without its is_open test: the driver is shut down and the flag
\* reset on every call.
close_body_always(t, after) ==
  /\ handle' = [handle EXCEPT ![t] = after]
  /\ tb' = "down"
  /\ shutdowns' = [shutdowns EXCEPT ![t] = @ + 1]
  /\ pc' = [pc EXCEPT ![t] = "unlock"]

\* close() that resets the flag without having shut the driver down.
close_body_unordered(t, after) ==
  /\ handle' = [handle EXCEPT ![t] = after]
  /\ IF handle[t] = "open"
     THEN /\ pc' = [pc EXCEPT ![t] = "unlock"]
          /\ UNCHANGED <<tb, shutdowns>>
     ELSE UNCHANGED <<tb, shutdowns, pc>>

\* src/lib.rs:224-228  the body of Termbox::close up to tb_shutdown():
\* nothing happens unless is_open; otherwise is_open := false and the driver
\* is shut down.  `after` is what is left of the handle: "closed" after an
\* explicit close, "dropped" when Drop made the call.
close_body(t, after) ==
  /\ handle' = [handle EXCEPT ![t] = after]
  /\ IF handle[t] = "open"
     THEN /\ tb' = "down"
          /\ shutdowns' = [shutdowns EXCEPT ![t] = @ + 1]
          /\ pc' = [pc EXCEPT ![t] = "unlock"]
     ELSE UNCHANGED <<tb, shutdowns, pc>>

\* src/lib.rs:224  Termbox::close, called explicitly
close(t) ==
  /\ impl = "root"
  /\ pc[t] = "idle"
  /\ handle[t] \in {"open", "closed"}
  /\ closes[t] < MaxCloses
  /\ closes' = [closes EXCEPT ![t] = @ + 1]
  /\ close_body(t, "closed")
  /\ UNCHANGED <<notLife, LOCK_FLAG, result, init_ret, releases>>

\* src/lib.rs:407-411  Drop for Termbox: self.close()
drop_close(t) ==
  /\ impl = "root"
  /\ pc[t] = "idle"
  /\ handle[t] \in {"open", "closed"}
  /\ close_body(t, "dropped")
  /\ UNCHANGED <<notLife, LOCK_FLAG, result, init_ret, closes, releases>>

\* src/src/lib.rs:609-615  Drop for Termbox: tb_shutdown(); the lock field is
\* dropped after it.
drop_shutdown(t) ==
  /\ impl = "crate"
  /\ pc[t] = "idle"
  /\ handle[t] = "open"
  /\ handle' = [handle EXCEPT ![t] = "dropped"]
  /\ tb' = "down"
  /\ shutdowns' = [shutdowns EXCEPT ![t] = @ + 1]
  /\ pc' = [pc EXCEPT ![t] = "unlock"]
  /\ UNCHANGED <<notLife, LOCK_FLAG, result, init_ret, closes, releases>>

\* src/lib.rs:229 _is_open.store(false); src/src/internal.rs:36-42 Drop for Lock
release(t) ==
  /\ pc[t] = "unlock"
  /\ LOCK_FLAG' = Lock_drop(LOCK_FLAG)
  /\ releases' = [releases EXCEPT ![t] = @ + 1]
  /\ pc' = [pc EXCEPT ![t] = "idle"]
  /\ UNCHANGED <<notLife, tb, handle, result, init_ret, closes, shutdowns>>

(***************************************************************************)
(* Machine integers.  TLC's integers are 32-bit themselves, so i32 math    *)
(* is written so that no intermediate value leaves the i32 range, and a    *)
(* usize is kept as five base-2^15 digits, least significant first.        *)
(* src/lib.rs predates overflow checks: its i32 arithmetic wraps.          *)
(***************************************************************************)
I32_MAX == 2147483647
I32_MIN == -I32_MAX - 1
B15 == 128 * 256

Min(a, b) == IF a < b THEN a ELSE b

\* i32 +, wrapping
WrapAdd(a, b) ==
  IF a >= 0 /\ b >= 0 /\ a > I32_MAX - b
    THEN (a - I32_MAX - 1) + (b - I32_MAX - 1)
  ELSE IF a < 0 /\ b < 0 /\ a < I32_MIN - b
    THEN (a + I32_MAX + 1) + (b + I32_MAX + 1)
  ELSE a + b

\* i32 unary -, wrapping
WrapNeg(a) == IF a = I32_MIN THEN I32_MIN ELSE -a

\* i32 binary -, wrapping
WrapSub(a, b) ==
  IF b = I32_MIN THEN WrapAdd(WrapAdd(a, I32_MAX), 1) ELSE WrapAdd(a, -b)

\* The two's complement digits of an i32: bits 0-14, 15-29, 30-31.
D0(a) == a % B15
D1(a) == (a \div B15) % B15
D2(a) == (a \div (B15 * B15)) % 4

\* i32 *, wrapping: the low 32 bits of the product, read as signed
WrapMul(a, b) ==
  LET c0 == D0(a) * D0(b)
      c1 == D0(a) * D1(b) + D1(a) * D0(b) + (c0 \div B15)
      c2 == D0(a) * D2(b) + D1(a) * D1(b) + D2(a) * D0(b) + (c1 \div B15)
      d2 == c2 % 4
  IN  (IF d2 >= 2 THEN (d2 - 4) * (B15 * B15) ELSE d2 * (B15 * B15))
        + (c1 % B15) * B15 + (c0 % B15)

\* The product of two usize values that came from non-negative c_ints, in
\* full: five digits (it is below 2^62).
NatMul(a, b) ==
  LET c0 == D0(a) * D0(b)
      c1 == D0(a) * D1(b) + D1(a) * D0(b) + (c0 \div B15)
      c2 == D0(a) * D2(b) + D1(a) * D1(b) + D2(a) * D0(b) + (c1 \div B15)
      c3 == D1(a) * D2(b) + D2(a) * D1(b) + (c2 \div B15)
      c4 == D2(a) * D2(b) + (c3 \div B15)
  IN  <<c0 % B15, c1 % B15, c2 % B15, c3 % B15, c4>>

\* Whether a five-digit value fits a usize of `bits` bits (32 or 64).
FitsUsize(d, bits) == bits = 64 \/ (d[5] = 0 /\ d[4] = 0 /\ d[3] < 4)

\* n >= d, for a slice length n the model can hold and a five-digit d
LenAtLeast(n, d) ==
  /\ d[5] = 0 /\ d[4] = 0 /\ d[3] < 2
  /\ n >= d[3] * (B15 * B15) + d[2] * B15 + d[1]

\* num::NumCast::from::<c_int, usize>: None for a negative value
NumCast_usize(n) == [some |-> n >= 0, val |-> n]

\* A multiplication that keeps the low bits of a product that does not fit.
checked_mul_wrapping(a, b, bits) ==
  LET d == NatMul(a, b) IN
    [some |-> TRUE,
     val |-> IF bits = 64 THEN d ELSE <<d[1], d[2], d[3] % 4, 0, 0>>]

\* num::CheckedMul::checked_mul on usize: None when the product does not fit
checked_mul(a, b, bits) ==
  LET d == NatMul(a, b) IN [some |-> FitsUsize(d, bits), val |-> d]

(***************************************************************************)
(* The display buffer.  A source slice is given by its length: cells[k] is *)
(* the token k + 1, and a cell of a cleared buffer is 0, so that a buffer  *)
(* shows which source cell, if any, was copied into each of its cells      *)
(* (blit copies cells and never looks into them).                          *)
(***************************************************************************)
Big == 256 * 256   \* the least width whose square wraps an i32 (to 0)

CellAt(k) == k + 1
Blank(w, h) == [i \in 0..(w * h - 1) |-> 0]
IsBlank(b) == \A i \in DOMAIN b : b[i] = 0

NoReq == [op |-> "none", x |-> 0, y |-> 0, w |-> 0, h |-> 0, len |-> 0, msg |-> <<>>]
NoOut == [outcome |-> "none", at |-> "", writes |-> <<>>, drv |-> <<>>]
Done(ws) == [outcome |-> "ok", at |-> "", writes |-> ws, drv |-> <<>>]
PanicAt(where, ws) == [outcome |-> "panic", at |-> where, writes |-> ws, drv |-> <<>>]

\* The outcome r of a call that made the driver calls named in calls.
Drv(r, calls) == [r EXCEPT !.drv = calls]

\* get_size that answers with the dimensions the session was opened with.
get_size_cached == IF is_open THEN <<MaxW, MaxH>> ELSE <<0, 0>>

\* src/lib.rs:258-266  Termbox::get_size: asks the driver on every call
get_size == IF is_open THEN <<bw, bh>> ELSE <<0, 0>>

\* src/lib.rs:177-179  if w > 0 && h > 0 { assert!(cells.len() >= (w * h) as uint) }
\* A negative product becomes a uint above every slice length.
blit_assert(w, h, len) ==
  (w > 0 /\ h > 0) => LET p == WrapMul(w, h) IN p >= 0 /\ len >= p

\* src/lib.rs:185  the dimension check
blit_outside(x, y, w, h, W, H) ==
  \/ w < 1
  \/ h < 1
  \/ WrapAdd(x, w) <= 0
  \/ WrapAdd(y, h) <= 0
  \/ x >= W
  \/ y >= H

\* src/lib.rs:189-192  the valid bounds
blit_bounds(x, y, w, h, W, H) ==
  [min_x |-> IF x < 0 THEN WrapNeg(x) ELSE 0,
   min_y |-> IF y < 0 THEN WrapNeg(y) ELSE 0,
   max_x |-> WrapSub(Min(WrapAdd(x, w), W), x),
   max_y |-> WrapSub(Min(WrapAdd(y, h), H), y)]

\* src/lib.rs:194-204  the copy.  Iteration i (from 1) is row
\* cy = min_y + (i-1) / n, column offset k = (i-1) % n, n = max_x - min_x.
\* Both slices are bounds-checked: the first index outside cells (len) or
\* outside dst ((buffer_width * buffer_height) as uint) panics, after the
\* writes made before it.
blit_copy(x, y, w, len, W, H, b) ==
  LET n == IF b.max_x > b.min_x THEN b.max_x - b.min_x ELSE 0
      rows == IF b.max_y > b.min_y THEN b.max_y - b.min_y ELSE 0
      total == rows * n
      dlen == WrapMul(W, H)
      cy(i) == b.min_y + ((i - 1) \div n)
      k(i) == (i - 1) % n
      src0(i) == WrapAdd(WrapMul(cy(i), w), b.min_x)
      dst0(i) == WrapAdd(WrapAdd(WrapMul(WrapAdd(y, cy(i)), W), x), b.min_x)
      srcOk(i) == src0(i) >= 0 /\ k(i) < len - src0(i)
      dstOk(i) == IF dst0(i) >= 0
                  THEN dlen < 0 \/ k(i) < dlen - dst0(i)
                  ELSE dlen < 0 /\ k(i) < dlen - dst0(i)
      bad == {i \in 1..total : ~(srcOk(i) /\ dstOk(i))}
      stop == IF bad = {} THEN total
              ELSE (CHOOSE i \in bad : \A j \in bad : i <= j) - 1
      ws == [i \in 1..stop |-> <<dst0(i) + k(i), src0(i) + k(i)>>]
  IN  IF bad = {} THEN Done(ws) ELSE PanicAt("index", ws)

\* src/lib.rs:175-206  Termbox::blit
RootBlit(x, y, w, h, len) ==
  IF ~blit_assert(w, h, len) THEN PanicAt("assert", <<>>)
  ELSE IF ~is_open THEN Done(<<>>)
  ELSE LET W == get_size[1]
           H == get_size[2]
       IN  IF blit_outside(x, y, w, h, W, H)
           THEN Drv(Done(<<>>), <<"tb_width", "tb_height">>)
           ELSE Drv(blit_copy(x, y, w, len, W, H, blit_bounds(x, y, w, h, W, H)),
                    <<"tb_width", "tb_height", "tb_cell_buffer">>)

\* The driver's tb_blit on a buffer of width W and height H, for w, h >= 0
\* and a source of at least w * h cells: the cells of the rectangle that lie
\* in the buffer are written row by row, cell (x+cx, y+cy) from
\* cells[cy*w+cx].  The result is the writes, <<index written, index read>>.
tb_blit(x, y, w, h, W, H) ==
  LET inside(c, r) == /\ x <= c /\ c - x < w
                      /\ y <= r /\ r - y < h
      idx == {r * W + c : <<c, r>> \in
                {p \in (0..(W - 1)) \X (0..(H - 1)) : inside(p[1], p[2])}}
      nth(i) == CHOOSE d \in idx : Cardinality({e \in idx : e < d}) = i - 1
      src(d) == ((d \div W) - y) * w + ((d % W) - x)
  IN  [i \in 1..Cardinality(idx) |-> <<nth(i), src(nth(i))>>]

\* src/src/lib.rs:393-401  Termbox::blit: the casts and the product are
\* unwrapped, the length asserted, &cells[0] taken, and the call handed to
\* the driver's tb_blit with the driver's width and height of the moment.
CrateBlit(x, y, w, h, len) ==
  IF ~NumCast_usize(w).some THEN PanicAt("unwrap uwidth", <<>>)
  ELSE IF ~NumCast_usize(h).some THEN PanicAt("unwrap uheight", <<>>)
  ELSE LET m == checked_mul(w, h, ptr_bits) IN
    IF ~m.some THEN PanicAt("unwrap checked_mul", <<>>)
    ELSE IF ~LenAtLeast(len, m.val) THEN PanicAt("assert", <<>>)
    ELSE IF len = 0 THEN PanicAt("index", <<>>)
    ELSE Drv(Done(tb_blit(x, y, w, h, bw, bh)), <<"tb_blit">>)

\* The driver's tb_change_cell, and its tb_put_cell with the character of
\* the cell given, on its buffer b of width W and height H: the cell at
\* (x, y) takes the character ch when it exists, and nothing happens
\* otherwise.  A cell of the buffer is shown by its character.
tb_change_cell(b, W, H, x, y, ch) ==
  IF 0 <= x /\ x < W /\ 0 <= y /\ y < H
  THEN [b EXCEPT ![y * W + x] = ch]
  ELSE b

\* src/src/lib.rs:545-549  the loop of Termbox::put_str: one tb_change_cell
\* for each character of msg, the column going up by one each time.
RECURSIVE put_str_loop(_, _, _, _, _, _)
put_str_loop(b, W, H, x, y, msg) ==
  IF msg = <<>> THEN b
  ELSE put_str_loop(tb_change_cell(b, W, H, x, y, Head(msg)),
                    W, H, WrapAdd(x, 1), y, Tail(msg))

\* The cells of b that hold something.
Written(b) == Cardinality({i \in DOMAIN b : b[i] # 0})

\* The columns, rows, characters and strings given to the cell calls.
CellXS == {-1, 0, MaxW - 1, MaxW}
CellYS == {0, MaxH - 1, MaxH}
MsgS == {<<>>, <<72>>, <<72, 105>>}

\* The buffer after the writes of a call, in their order.
ApplyWrites(b, ws) ==
  [i \in DOMAIN b |->
     IF \E j \in DOMAIN ws : ws[j][1] = i
     THEN LET last == CHOOSE j \in DOMAIN ws :
                        /\ ws[j][1] = i
                        /\ \A j2 \in DOMAIN ws : ws[j2][1] = i => j2 <= j
          IN  CellAt(ws[last][2])
     ELSE b[i]]

\* The requests tried: offsets around the buffer and one at the end of the
\* i32 range, sizes from -1 to the buffer's and one that overflows, and
\* slices one short of, equal to and one longer than w * h.
XS == (-(MaxW - 1)..MaxW) \cup {I32_MAX}
YS == (-(MaxH - 1)..MaxH) \cup {I32_MAX}
WS == (-1..MaxW) \cup {Big}
HS == (-1..MaxH) \cup {Big}
LenS(w, h) ==
  IF w < 1 \/ h < 1 THEN {0, 1}
  ELSE IF w = Big \/ h = Big THEN {0, 1, MaxW * MaxH}
  ELSE {0, w * h - 1, w * h, w * h + 1}

\* src/src/lib.rs:404-412 and 415-423  cell_buffer and cell_buffer_mut: the
\* length handed to from_raw_parts, or the panic of an unwrap.
NoView == [op |-> "none", outcome |-> "none", at |-> "", len |-> <<0, 0, 0, 0, 0>>]
cell_buffer_len(op, W, H) ==
  IF ~NumCast_usize(W).some
    THEN [NoView EXCEPT !.op = op, !.outcome = "panic", !.at = "unwrap w"]
  ELSE IF ~NumCast_usize(H).some
    THEN [NoView EXCEPT !.op = op, !.outcome = "panic", !.at = "unwrap h"]
  ELSE LET m == checked_mul(W, H, ptr_bits) IN
    IF ~m.some
      THEN [NoView EXCEPT !.op = op, !.outcome = "panic", !.at = "unwrap checked_mul"]
      ELSE [NoView EXCEPT !.op = op, !.outcome = "ok", !.len = m.val]

\* A slice of d cells (five digits) takes more than isize::MAX bytes: a
\* Cell is 8 bytes (u32, u16, u16), so d >= 2^(bits - 4).
CellBytes == 4 + 2 + 2
OverIsizeMax(d, bits) ==
  IF bits = 64 THEN d[5] >= 1
  ELSE d[5] >= 1 \/ d[4] >= 1 \/ d[3] >= 1 \/ d[2] * CellBytes >= B15 * 2

\* src/src/lib.rs:411 and 422  from_raw_parts / from_raw_parts_mut on what
\* cell_buffer_len computed: the slice of that length.  A length of more
\* than isize::MAX bytes breaks the function's safety contract and the
\* behaviour is undefined: a build with debug assertions aborts the process
\* there, another one returns the slice.
from_raw_parts(v) ==
  IF v.outcome = "ok" /\ OverIsizeMax(v.len, ptr_bits)
  THEN {v, [v EXCEPT !.outcome = "abort", !.at = "from_raw_parts",
                     !.len = NoView.len]}
  ELSE {v}

\* The sizes a driver may report: ordinary ones, negative ones, and the
\* ones around which the product leaves 31 and 32 bits.
DimS == {-1, 0, 1, 2, MaxW, 46340, 46341, Big - 1, Big, I32_MAX, I32_MIN}

(***************************************************************************)
(* Events.  A raw record is [etype, emod, key, ch, w, h, x, y]; a decoded  *)
(* event is a record with one field per field of any Event variant, the    *)
(* fields its variant lacks left at their NoEvent values.                  *)
(***************************************************************************)
TB_EVENT_KEY == 1
TB_EVENT_RESIZE == 2
TB_EVENT_MOUSE == 3
TB_MOD_ALT == 1
MOD_ALT == 1
TB_KEY_MOUSE_LEFT == 65535 - 22
TB_KEY_MOUSE_RIGHT == 65535 - 23
TB_KEY_MOUSE_MIDDLE == 65535 - 24
TB_KEY_MOUSE_RELEASE == 65535 - 25
TB_KEY_MOUSE_WHEEL_UP == 65535 - 26
TB_KEY_MOUSE_WHEEL_DOWN == 65535 - 27

\* a & b on unsigned values
RECURSIVE BitAnd(_, _)
BitAnd(a, b) ==
  IF a = 0 \/ b = 0 THEN 0
  ELSE (a % 2) * (b % 2) + 2 * BitAnd(a \div 2, b \div 2)

\* A conversion that takes every 32-bit value for a character.
from_u32_unchecked(c) == [some |-> TRUE, val |-> c]

\* std::char::from_u32: None for a surrogate and above U+10FFFF
from_u32(c) == [some |-> c <= 1114111 /\ ~(55296 <= c /\ c <= 57343), val |-> c]

NoEvent ==
  [kind |-> "none", key |-> 0, ch_some |-> FALSE, ch |-> 0, alt |-> FALSE,
   mods |-> 0, button |-> "", w |-> 0, h |-> 0, x |-> 0, y |-> 0]

Some(e) == [tag |-> "Some", at |-> "", val |-> e]
None == [tag |-> "None", at |-> "", val |-> NoEvent]
Unwound(where) == [tag |-> "panic", at |-> where, val |-> NoEvent]
NoDec == [tag |-> "none", at |-> "", val |-> NoEvent]

\* Option::unwrap inside a decoder: a None panics, a panic goes on
Unwrap(o, where) == IF o.tag = "None" THEN Unwound(where) ELSE o

\* A key decode that also wants the record's position fields to be on
\* screen.
KeyEvent_from_raw_at(r) ==
  IF r.etype = TB_EVENT_KEY /\ r.x >= 0 /\ r.y >= 0
  THEN Some([NoEvent EXCEPT !.kind = "Key",
                            !.key = r.key,
                            !.ch_some = from_u32(r.ch).some,
                            !.ch = IF from_u32(r.ch).some THEN r.ch ELSE 0,
                            !.alt = BitAnd(r.emod, TB_MOD_ALT) # 0])
  ELSE None

\* src/src/lib.rs:235-247  KeyEvent::from_raw
KeyEvent_from_raw(r) ==
  IF r.etype = TB_EVENT_KEY
  THEN Some([NoEvent EXCEPT !.kind = "Key",
                            !.key = r.key,
                            !.ch_some = from_u32(r.ch).some,
                            !.ch = IF from_u32(r.ch).some THEN r.ch ELSE 0,
                            !.alt = BitAnd(r.emod, TB_MOD_ALT) # 0])
  ELSE None

\* A button decode whose catch-all arm answers Left.
MouseButton_from_raw_default(k) ==
  CASE k = TB_KEY_MOUSE_RIGHT -> [some |-> TRUE, val |-> "Right"]
    [] k = TB_KEY_MOUSE_MIDDLE -> [some |-> TRUE, val |-> "Middle"]
    [] k = TB_KEY_MOUSE_RELEASE -> [some |-> TRUE, val |-> "Release"]
    [] k = TB_KEY_MOUSE_WHEEL_UP -> [some |-> TRUE, val |-> "WheelUp"]
    [] k = TB_KEY_MOUSE_WHEEL_DOWN -> [some |-> TRUE, val |-> "WheelDown"]
    [] OTHER -> [some |-> TRUE, val |-> "Left"]

\* src/src/lib.rs:265-277  MouseButton::from_raw
MouseButton_from_raw(k) ==
  CASE k = TB_KEY_MOUSE_LEFT -> [some |-> TRUE, val |-> "Left"]
    [] k = TB_KEY_MOUSE_RIGHT -> [some |-> TRUE, val |-> "Right"]
    [] k = TB_KEY_MOUSE_MIDDLE -> [some |-> TRUE, val |-> "Middle"]
    [] k = TB_KEY_MOUSE_RELEASE -> [some |-> TRUE, val |-> "Release"]
    [] k = TB_KEY_MOUSE_WHEEL_UP -> [some |-> TRUE, val |-> "WheelUp"]
    [] k = TB_KEY_MOUSE_WHEEL_DOWN -> [some |-> TRUE, val |-> "WheelDown"]
    [] OTHER -> [some |-> FALSE, val |-> ""]

\* src/src/lib.rs:293-305  MouseEvent::from_raw (x and y are c_int on both
\* sides of the cast, which therefore never fails)
MouseEvent_from_raw(r) ==
  IF r.etype = TB_EVENT_MOUSE
  THEN IF ~MouseButton_from_raw(r.key).some THEN Unwound("unwrap button")
       ELSE Some([NoEvent EXCEPT !.kind = "Mouse",
                                 !.button = MouseButton_from_raw(r.key).val,
                                 !.x = r.x,
                                 !.y = r.y])
  ELSE None

\* src/src/lib.rs:364-375  ResizeEvent::from_raw
ResizeEvent_from_raw(r) ==
  IF r.etype = TB_EVENT_RESIZE
  THEN Some([NoEvent EXCEPT !.kind = "Resize", !.w = r.w, !.h = r.h])
  ELSE None

\* Event::from_raw with a catch-all arm that reads the record as a key.
Event_from_raw_lenient(r) ==
  IF r.etype = TB_EVENT_RESIZE THEN Unwrap(ResizeEvent_from_raw(r), "unwrap resize")
  ELSE IF r.etype = TB_EVENT_MOUSE THEN Unwrap(MouseEvent_from_raw(r), "unwrap mouse")
  ELSE Unwrap(KeyEvent_from_raw([r EXCEPT !.etype = TB_EVENT_KEY]), "unwrap key")

\* src/src/lib.rs:125-134  Event::from_raw
Event_from_raw(r) ==
  IF r.etype = TB_EVENT_KEY THEN Unwrap(KeyEvent_from_raw(r), "unwrap key")
  ELSE IF r.etype = TB_EVENT_RESIZE THEN Unwrap(ResizeEvent_from_raw(r), "unwrap resize")
  ELSE IF r.etype = TB_EVENT_MOUSE THEN Unwrap(MouseEvent_from_raw(r), "unwrap mouse")
  ELSE None

\* src/lib.rs:117-121  Mods::from_bits, None replaced by Mods::empty()
Mods_from_bits_or_empty(bits) ==
  IF BitAnd(bits, 255 - MOD_ALT) = 0 THEN bits ELSE 0

\* src/lib.rs:447-459 and src/src/ffi.rs:33-45  tb_event::to_safe_event (the
\* record of these versions has no x and y, and there is no mouse kind)
to_safe_event(r) ==
  IF r.etype = TB_EVENT_KEY
  THEN Some([NoEvent EXCEPT !.kind = "Key",
                            !.mods = Mods_from_bits_or_empty(r.emod),
                            !.key = r.key,
                            !.ch_some = TRUE,
                            !.ch = IF from_u32(r.ch).some THEN r.ch ELSE 0])
  ELSE IF r.etype = TB_EVENT_RESIZE
  THEN Some([NoEvent EXCEPT !.kind = "Resize", !.w = r.w, !.h = r.h])
  ELSE None

\* What a call hands to its caller.
NoEv == [outcome |-> "none", at |-> "", val |-> NoEvent]
GotEvent(e) == [outcome |-> "event", at |-> "", val |-> e]
GotNone == [outcome |-> "no event", at |-> "", val |-> NoEvent]
GotPanic(where) == [outcome |-> "panic", at |-> where, val |-> NoEvent]

\* The caller's end of a decode: Some gives the event, None and a panic
\* inside the decoder end the call in a panic.
Deliver(d, where) ==
  IF d.tag = "Some" THEN GotEvent(d.val)
  ELSE IF d.tag = "None" THEN GotPanic(where)
  ELSE GotPanic(d.at)

\* The decoder of each implementation, and the kind tags it knows.
Decode(r) == IF impl = "crate" THEN Event_from_raw(r) ELSE to_safe_event(r)
KnownKinds ==
  IF impl = "crate" THEN {TB_EVENT_KEY, TB_EVENT_RESIZE, TB_EVENT_MOUSE}
  ELSE {TB_EVENT_KEY, TB_EVENT_RESIZE}

\* peek_event that answers None for a record that does not decode.
peek_result_swallow(res, d) ==
  IF impl = "root" /\ ~is_open THEN GotNone
  ELSE IF res < 0 THEN GotPanic("tb_peek_event returned")
  ELSE IF res = 0 THEN GotNone
  ELSE IF d.tag = "Some" THEN GotEvent(d.val) ELSE GotNone

\* src/src/lib.rs:497-510 and src/lib.rs:306-329  peek_event, given the
\* driver's return value and the decoder's result
peek_result(res, d) ==
  IF impl = "root" /\ ~is_open THEN GotNone
  ELSE IF res < 0 THEN GotPanic("tb_peek_event returned")
  ELSE IF res = 0 THEN GotNone
  ELSE Deliver(d, IF impl = "crate" THEN "unwrap event" ELSE "invalid event")

\* src/src/lib.rs:513-524 and src/lib.rs:331-352  poll_event
poll_result(res, d) ==
  IF impl = "root" /\ ~is_open THEN GotPanic("Termbox is closed")
  ELSE IF res <= 0 THEN GotPanic("tb_poll_event returned")
  ELSE Deliver(d, IF impl = "crate" THEN "unwrap event" ELSE "invalid event")

\* The records a driver may fill in.  Fields the kind does not use hold
\* either zero or leftovers (Junk), since the driver does not clear them.
ZeroRaw ==
  [etype |-> 0, emod |-> 0, key |-> 0, ch |-> 0, w |-> 0, h |-> 0, x |-> 0, y |-> 0]
Junk == {0, 7}
ChS == {0, 65, 55295, 55296, 57343, 57344, 1114111, 1114112}
KeyS == {0, 27, 65535, TB_KEY_MOUSE_LEFT}
ButtonS ==
  {TB_KEY_MOUSE_LEFT, TB_KEY_MOUSE_RIGHT, TB_KEY_MOUSE_MIDDLE, TB_KEY_MOUSE_RELEASE,
   TB_KEY_MOUSE_WHEEL_UP, TB_KEY_MOUSE_WHEEL_DOWN,
   TB_KEY_MOUSE_LEFT + 1, TB_KEY_MOUSE_WHEEL_DOWN - 1, 0}
KeyRaws ==
  {[etype |-> TB_EVENT_KEY, emod |-> m, key |-> k, ch |-> c,
    w |-> j, h |-> j, x |-> j, y |-> j] :
     m \in 0..3, k \in KeyS, c \in ChS, j \in Junk}
ResizeRaws ==
  {[etype |-> TB_EVENT_RESIZE, emod |-> j, key |-> j, ch |-> j,
    w |-> a, h |-> b, x |-> j, y |-> j] :
     a \in {-1, 0, 1, 80}, b \in {-1, 0, 1, 24}, j \in Junk}
MouseRaws ==
  {[etype |-> TB_EVENT_MOUSE, emod |-> m, key |-> k, ch |-> j,
    w |-> j, h |-> j, x |-> a, y |-> b] :
     m \in {0, 1}, k \in ButtonS, a \in {-1, 5}, b \in {-1, 3}, j \in Junk}
OtherRaws ==
  {[etype |-> t, emod |-> j, key |-> k, ch |-> j,
    w |-> j, h |-> j, x |-> j, y |-> j] :
     t \in {0, 4, 255}, k \in {0, TB_KEY_MOUSE_LEFT}, j \in Junk}
RawS == KeyRaws \cup ResizeRaws \cup MouseRaws \cup OtherRaws

\* What the driver does in one read: a failure (negative) or nothing (0),
\* the record left as it was, or an event (1, or the event's kind as the
\* driver also returns it) and its record.
DriverReads ==
  {<<-2, ZeroRaw>>, <<-1, ZeroRaw>>, <<0, ZeroRaw>>}
    \cup {<<1, r>> : r \in RawS}
    \cup {<<TB_EVENT_RESIZE, r>> : r \in ResizeRaws}

\* What the driver holds for two successive reads: any first read, and then
\* a key press.
DriverQueues ==
  {<<rd, <<1, [ZeroRaw EXCEPT !.etype = TB_EVENT_KEY, !.key = TB_KEY_MOUSE_LEFT]>>>> :
     rd \in DriverReads}

(***************************************************************************)
(* Modes.  An Option<InputMode> or Option<OutputMode> is [some, val], val  *)
(* the variant's name.                                                     *)
(***************************************************************************)
TB_INPUT_CURRENT == 0
TB_INPUT_ESC == 1
TB_INPUT_ALT == 2
TB_INPUT_MOUSE == 4
TB_OUTPUT_CURRENT == 0
TB_OUTPUT_NORMAL == 1
TB_OUTPUT_256 == 2
TB_OUTPUT_216 == 3
TB_OUTPUT_GRAYSCALE == 4
INPUT_MODE_MASK == 3

\* a & m, a | m and a & !m for a c_int a and a mask m below 128: of a two's
\* complement a, only the low seven bits (a % 128) meet the mask.
AndMask(a, m) == BitAnd(a % 128, m)
OrMask(a, m) == a + (m - AndMask(a, m))
AndNotMask(a, m) == a - AndMask(a, m)

SomeMode(m) == [some |-> TRUE, val |-> m]
NoMode == [some |-> FALSE, val |-> ""]

\* InputMode::from_raw without the mask.
InputMode_from_raw_unmasked(n) ==
  IF n = TB_INPUT_ESC THEN SomeMode("Esc")
  ELSE IF n = TB_INPUT_ALT THEN SomeMode("Alt")
  ELSE NoMode

\* src/src/lib.rs:203-209  InputMode::from_raw
InputMode_from_raw(n) ==
  IF AndMask(n, INPUT_MODE_MASK) = TB_INPUT_ESC THEN SomeMode("Esc")
  ELSE IF AndMask(n, INPUT_MODE_MASK) = TB_INPUT_ALT THEN SomeMode("Alt")
  ELSE NoMode

\* src/src/lib.rs:211-216  InputMode::to_raw
InputMode_to_raw(m) == IF m = "Esc" THEN TB_INPUT_ESC ELSE TB_INPUT_ALT

\* src/lib.rs:76-83  InputMode::from_c_int
InputMode_from_c_int(n) ==
  IF n = TB_INPUT_ESC THEN SomeMode("Esc")
  ELSE IF n = TB_INPUT_ALT THEN SomeMode("Alt")
  ELSE NoMode

\* src/lib.rs:85-90  InputMode::to_c_int
InputMode_to_c_int(m) == IF m = "Esc" THEN TB_INPUT_ESC ELSE TB_INPUT_ALT

\* src/src/lib.rs:331-340  OutputMode::from_raw
OutputMode_from_raw(n) ==
  IF n = TB_OUTPUT_NORMAL THEN SomeMode("Normal")
  ELSE IF n = TB_OUTPUT_256 THEN SomeMode("Color256")
  ELSE IF n = TB_OUTPUT_216 THEN SomeMode("Color216")
  ELSE IF n = TB_OUTPUT_GRAYSCALE THEN SomeMode("Grayscale")
  ELSE NoMode

\* src/src/lib.rs:342-349  OutputMode::to_raw
OutputMode_to_raw(m) ==
  CASE m = "Normal" -> TB_OUTPUT_NORMAL
    [] m = "Color256" -> TB_OUTPUT_256
    [] m = "Color216" -> TB_OUTPUT_216
    [] m = "Grayscale" -> TB_OUTPUT_GRAYSCALE

\* src/lib.rs:141-149  OutputMode::from_c_int
OutputMode_from_c_int(n) ==
  IF n = TB_OUTPUT_NORMAL THEN SomeMode("Normal")
  ELSE IF n = TB_OUTPUT_256 THEN SomeMode("C256")
  ELSE IF n = TB_OUTPUT_216 THEN SomeMode("C216")
  ELSE IF n = TB_OUTPUT_GRAYSCALE THEN SomeMode("Grayscale")
  ELSE NoMode

\* src/lib.rs:151-158  OutputMode::to_c_int
OutputMode_to_c_int(m) ==
  CASE m = "Normal" -> TB_OUTPUT_NORMAL
    [] m = "C256" -> TB_OUTPUT_256
    [] m = "C216" -> TB_OUTPUT_216
    [] m = "Grayscale" -> TB_OUTPUT_GRAYSCALE

\* The conversions of each generation, and the values of its enums.
InputModes == {"Esc", "Alt"}
OutputModes ==
  IF impl = "crate" THEN {"Normal", "Color256", "Color216", "Grayscale"}
  ELSE {"Normal", "C256", "C216", "Grayscale"}
decode_in(n) == IF impl = "crate" THEN InputMode_from_raw(n) ELSE InputMode_from_c_int(n)
encode_in(m) == IF impl = "crate" THEN InputMode_to_raw(m) ELSE InputMode_to_c_int(m)
decode_out(n) == IF impl = "crate" THEN OutputMode_from_raw(n) ELSE OutputMode_from_c_int(n)
encode_out(m) == IF impl = "crate" THEN OutputMode_to_raw(m) ELSE OutputMode_to_c_int(m)

\* The integer codes given to the decoders.
MaxCode == 16
CodeS == (-MaxCode..MaxCode) \cup {I32_MAX, I32_MIN, 255, 256, 257}

NoCq == [fn |-> "none", code |-> 0, mode |-> "", some |-> FALSE, res |-> ""]
NoMq == [op |-> "none", outcome |-> "none", mode |-> "", flag |-> FALSE]
NoAsked == [imode |-> "", omode |-> "", mouse |-> FALSE, mouse_set |-> FALSE]
Called(op) == [NoMq EXCEPT !.op = op, !.outcome = "ok"]

\* The driver's tb_select_input_mode and tb_select_output_mode, given its
\* current mode: TB_INPUT_CURRENT / TB_OUTPUT_CURRENT (0) asks, any other
\* value is taken as the new mode; the mode then in force is returned.
tb_select_input_mode(cur, mode) == IF mode = TB_INPUT_CURRENT THEN cur ELSE mode
tb_select_output_mode(cur, mode) == IF mode = TB_OUTPUT_CURRENT THEN cur ELSE mode

\* set_input_mode that hands the driver the bare mode code.
set_input_mode_code_bare(prev_mode, m) == InputMode_to_raw(m)

\* src/src/lib.rs:568-574  the code set_input_mode selects, after prev_mode
set_input_mode_code(prev_mode, m) ==
  OrMask(AndNotMask(prev_mode, INPUT_MODE_MASK), InputMode_to_raw(m))

\* src/src/lib.rs:577-592  the code set_mouse_enabled arrives at
set_mouse_enabled_code(prev_mode, enabled) ==
  IF enabled THEN OrMask(prev_mode, TB_INPUT_MOUSE)
  ELSE AndNotMask(prev_mode, TB_INPUT_MOUSE)

(***************************************************************************)
(* Rest values: what a specification that does not exercise a part of the  *)
(* state holds it at.                                                      *)
(***************************************************************************)
EvRest ==
  /\ call = "none"
  /\ ret = 0
  /\ raw = ZeroRaw
  /\ dec = NoDec
  /\ ev = NoEv
  /\ nreads = 0

ModeRest ==
  /\ cq = NoCq
  /\ tb_inputmode = TB_INPUT_ESC
  /\ tb_outputmode = TB_OUTPUT_NORMAL
  /\ asked = NoAsked
  /\ mq = NoMq

BufRest ==
  /\ ptr_bits = 64
  /\ is_open = TRUE
  /\ bw = MaxW
  /\ bh = MaxH
  /\ buf = Blank(MaxW, MaxH)
  /\ req = NoReq
  /\ out = NoOut
  /\ view = NoView

BlitInit ==
  /\ impl \in Impls
  /\ LifeInit
  /\ ptr_bits \in (IF impl = "crate" THEN {32, 64} ELSE {64})
  /\ is_open = TRUE
  /\ bw = MaxW
  /\ bh = MaxH
  /\ buf = Blank(MaxW, MaxH)
  /\ req = NoReq
  /\ out = NoOut
  /\ view = NoView
  /\ EvRest
  /\ ModeRest

\* The terminal is resized and the driver takes the new size: tb_width and
\* tb_height change and the buffer is a cleared one of that size.
tb_resize ==
  /\ is_open
  /\ \E W \in 1..MaxW, H \in 1..MaxH :
       /\ <<W, H>> # <<bw, bh>>
       /\ bw' = W
       /\ bh' = H
       /\ buf' = Blank(W, H)
  /\ req' = NoReq
  /\ out' = NoOut
  /\ UNCHANGED <<notBuf, ptr_bits, is_open>>

\* src/lib.rs:216-222 and src/src/lib.rs:434-438  Termbox::clear: tb_clear()
\* (in src/lib.rs only while is_open)
clear ==
  /\ req' = [NoReq EXCEPT !.op = "clear"]
  /\ out' = Drv(Done(<<>>), IF is_open THEN <<"tb_clear">> ELSE <<>>)
  /\ buf' = IF is_open THEN Blank(bw, bh) ELSE buf
  /\ UNCHANGED <<notBuf, ptr_bits, is_open, bw, bh>>

\* src/lib.rs:224-232  Termbox::close on the handle: after it get_size is
\* (0, 0) and the driver's buffer is gone.
buf_close ==
  /\ impl = "root"
  /\ is_open
  /\ is_open' = FALSE
  /\ buf' = Blank(0, 0)
  /\ req' = [NoReq EXCEPT !.op = "close"]
  /\ out' = Drv(Done(<<>>), <<"tb_shutdown">>)
  /\ UNCHANGED <<notBuf, ptr_bits, bw, bh>>

\* src/lib.rs:175  Termbox::blit.  Calls are taken one at a time on a cleared
\* buffer, so that the buffer shows the writes of that call alone.
blit_root ==
  /\ impl = "root"
  /\ req.op # "blit"
  /\ IsBlank(buf)
  /\ \E x \in XS, y \in YS, w \in WS, h \in HS :
       \E len \in LenS(w, h) :
         LET r == RootBlit(x, y, w, h, len) IN
           /\ req' = [op |-> "blit", x |-> x, y |-> y, w |-> w, h |-> h, len |-> len,
                      msg |-> <<>>]
           /\ out' = r
           /\ buf' = ApplyWrites(buf, r.writes)
  /\ UNCHANGED <<notBuf, ptr_bits, is_open, bw, bh>>

\* src/src/lib.rs:393  Termbox::blit.  Calls are taken one at a time on a cleared
\* buffer, so that the buffer shows the writes of that call alone.
blit_crate ==
  /\ impl = "crate"
  /\ req.op # "blit"
  /\ IsBlank(buf)
  /\ \E x \in XS, y \in YS, w \in WS, h \in HS :
       \E len \in LenS(w, h) :
         LET r == CrateBlit(x, y, w, h, len) IN
           /\ req' = [op |-> "blit", x |-> x, y |-> y, w |-> w, h |-> h, len |-> len,
                      msg |-> <<>>]
           /\ out' = r
           /\ buf' = ApplyWrites(buf, r.writes)
  /\ UNCHANGED <<notBuf, ptr_bits, is_open, bw, bh>>

BlitNext ==
  \/ tb_resize
  \/ clear
  \/ buf_close
  \/ blit_root
  \/ blit_crate

SpecBlit == BlitInit /\ [][BlitNext]_vars

(***************************************************************************)
(* The buffer calls on an open and on a closed handle.                     *)
(***************************************************************************)
\* A call that hands its arguments to one driver function, which
\* src/lib.rs makes only while is_open.
Forwarded(fn) == Drv(Done(<<>>), IF is_open THEN <<fn>> ELSE <<>>)

\* src/lib.rs:208-214 and src/src/lib.rs:426-430  Termbox::change_cell
change_cell ==
  /\ Written(buf) < MaxWritten
  /\ \E x \in CellXS, y \in CellYS, ch \in {72, 105} :
       /\ req' = [NoReq EXCEPT !.op = "change_cell", !.x = x, !.y = y,
                                !.msg = <<ch>>]
       /\ buf' = IF is_open THEN tb_change_cell(buf, bw, bh, x, y, ch) ELSE buf
  /\ out' = Forwarded("tb_change_cell")
  /\ UNCHANGED <<notBuf, ptr_bits, is_open, bw, bh>>

\* src/lib.rs:362-368 and src/src/lib.rs:535-539  Termbox::put_cell
put_cell ==
  /\ Written(buf) < MaxWritten
  /\ \E x \in CellXS, y \in CellYS, ch \in {72, 105} :
       /\ req' = [NoReq EXCEPT !.op = "put_cell", !.x = x, !.y = y,
                                !.msg = <<ch>>]
       /\ buf' = IF is_open THEN tb_change_cell(buf, bw, bh, x, y, ch) ELSE buf
  /\ out' = Forwarded("tb_put_cell")
  /\ UNCHANGED <<notBuf, ptr_bits, is_open, bw, bh>>

\* src/src/lib.rs:543-551  Termbox::put_str (src/lib.rs has none)
put_str ==
  /\ impl = "crate"
  /\ Written(buf) < MaxWritten
  /\ \E x \in CellXS, y \in CellYS, msg \in MsgS :
       /\ req' = [NoReq EXCEPT !.op = "put_str", !.x = x, !.y = y, !.msg = msg]
       /\ buf' = put_str_loop(buf, bw, bh, x, y, msg)
       /\ out' = Drv(Done(<<>>), [i \in 1..Len(msg) |-> "tb_change_cell"])
  /\ UNCHANGED <<notBuf, ptr_bits, is_open, bw, bh>>

\* src/lib.rs:354-360 and src/src/lib.rs:528-532  Termbox::present
present ==
  /\ req' = [NoReq EXCEPT !.op = "present"]
  /\ out' = Forwarded("tb_present")
  /\ UNCHANGED <<notBuf, ptr_bits, is_open, bw, bh, buf>>

\* src/lib.rs:370-376 and src/src/lib.rs:554-558  Termbox::set_clear_attributes
set_clear_attributes ==
  /\ req' = [NoReq EXCEPT !.op = "set_clear_attributes"]
  /\ out' = Forwarded("tb_set_clear_attributes")
  /\ UNCHANGED <<notBuf, ptr_bits, is_open, bw, bh, buf>>

ClosedNext ==
  \/ clear
  \/ buf_close
  \/ blit_root
  \/ blit_crate
  \/ change_cell
  \/ put_cell
  \/ put_str
  \/ present
  \/ set_clear_attributes

SpecClosed == BlitInit /\ [][ClosedNext]_vars

(***************************************************************************)
(* The buffer view.  The cells are not held here (buf is empty): a view is *)
(* its length.                                                             *)
(***************************************************************************)
ViewInit ==
  /\ impl = "crate"
  /\ LifeInit
  /\ EvRest
  /\ ModeRest
  /\ ptr_bits \in {32, 64}
  /\ is_open = TRUE
  /\ bw = MaxW
  /\ bh = MaxH
  /\ buf = Blank(0, 0)
  /\ req = NoReq
  /\ out = NoOut
  /\ view = NoView

\* The driver comes to report another width and height.
tb_report ==
  /\ \E W \in DimS, H \in DimS :
       /\ <<W, H>> # <<bw, bh>>
       /\ bw' = W
       /\ bh' = H
  /\ view' = NoView
  /\ UNCHANGED notView

\* src/src/lib.rs:404-412  Termbox::cell_buffer
cell_buffer ==
  /\ impl = "crate"
  /\ view' \in from_raw_parts(cell_buffer_len("cell_buffer", bw, bh))
  /\ UNCHANGED <<notView, bw, bh>>

\* src/src/lib.rs:415-423  Termbox::cell_buffer_mut
cell_buffer_mut ==
  /\ impl = "crate"
  /\ view' \in from_raw_parts(cell_buffer_len("cell_buffer_mut", bw, bh))
  /\ UNCHANGED <<notView, bw, bh>>

ViewNext ==
  \/ tb_report
  \/ cell_buffer
  \/ cell_buffer_mut

SpecView == ViewInit /\ [][ViewNext]_vars

(***************************************************************************)
(* Event retrieval.                                                        *)
(***************************************************************************)
EvInit ==
  /\ impl \in Impls
  /\ LifeInit
  /\ BufRest
  /\ EvRest
  /\ ModeRest

\* One driver read and what is decoded from it.  A closed src/lib.rs handle
\* does not read the driver.
DriverRead(rd) ==
  LET reads == ~(impl = "root" /\ ~is_open) IN
    [ret |-> IF reads THEN rd[1] ELSE 0,
     raw |-> IF reads THEN rd[2] ELSE ZeroRaw,
     dec |-> IF reads /\ rd[1] > 0 THEN Decode(rd[2]) ELSE NoDec,
     n |-> IF reads THEN 1 ELSE 0]

\* A call that reads the driver again when the record it got does not
\* decode.
read_event_repoll(q) ==
  LET first == DriverRead(q[1])
      again == DriverRead(q[2])
  IN  IF first.ret > 0 /\ first.dec.tag # "Some"
      THEN [again EXCEPT !.n = first.n + again.n]
      ELSE first

\* src/src/lib.rs:499-500, 515-516 and src/lib.rs:309-310, 334-335: the
\* call's one tb_peek_event / tb_poll_event into a fresh record.  q is what
\* the driver would give to successive reads.
read_event(q) == DriverRead(q[1])

\* src/src/lib.rs:497 and src/lib.rs:306  Termbox::peek_event
peek_event ==
  /\ \E q \in DriverQueues :
       LET got == read_event(q) IN
         /\ ret' = got.ret
         /\ raw' = got.raw
         /\ dec' = got.dec
         /\ nreads' = got.n
         /\ ev' = peek_result(got.ret, got.dec)
  /\ call' = "peek_event"
  /\ UNCHANGED notEv

\* src/src/lib.rs:513 and src/lib.rs:331  Termbox::poll_event
poll_event ==
  /\ \E q \in DriverQueues :
       LET got == read_event(q) IN
         /\ ret' = got.ret
         /\ raw' = got.raw
         /\ dec' = got.dec
         /\ nreads' = got.n
         /\ ev' = poll_result(got.ret, got.dec)
  /\ call' = "poll_event"
  /\ UNCHANGED notEv

EvNext ==
  \/ peek_event
  \/ poll_event
  \/ buf_close

SpecEvents == EvInit /\ [][EvNext]_vars

(***************************************************************************)
(* The mode conversions, applied to every code and every mode.             *)
(***************************************************************************)
CodecInit ==
  /\ impl \in Impls
  /\ LifeInit
  /\ BufRest
  /\ EvRest
  /\ ModeRest

\* InputMode::from_raw / from_c_int on a code
decode_input ==
  /\ \E n \in CodeS :
       cq' = [fn |-> "decode_input", code |-> n, mode |-> "",
              some |-> decode_in(n).some, res |-> decode_in(n).val]
  /\ UNCHANGED <<notMode, tb_inputmode, tb_outputmode, asked, mq>>

\* InputMode::to_raw / to_c_int on a mode, and the code decoded again
encode_input ==
  /\ \E m \in InputModes :
       cq' = [fn |-> "encode_input", code |-> encode_in(m), mode |-> m,
              some |-> decode_in(encode_in(m)).some,
              res |-> decode_in(encode_in(m)).val]
  /\ UNCHANGED <<notMode, tb_inputmode, tb_outputmode, asked, mq>>

\* OutputMode::from_raw / from_c_int on a code
decode_output ==
  /\ \E n \in CodeS :
       cq' = [fn |-> "decode_output", code |-> n, mode |-> "",
              some |-> decode_out(n).some, res |-> decode_out(n).val]
  /\ UNCHANGED <<notMode, tb_inputmode, tb_outputmode, asked, mq>>

\* OutputMode::to_raw / to_c_int on a mode, and the code decoded again
encode_output ==
  /\ \E m \in OutputModes :
       cq' = [fn |-> "encode_output", code |-> encode_out(m), mode |-> m,
              some |-> decode_out(encode_out(m)).some,
              res |-> decode_out(encode_out(m)).val]
  /\ UNCHANGED <<notMode, tb_inputmode, tb_outputmode, asked, mq>>

CodecNext ==
  \/ decode_input
  \/ encode_input
  \/ decode_output
  \/ encode_output

SpecCodec == CodecInit /\ [][CodecNext]_vars

(***************************************************************************)
(* The mode calls of an open session and the driver's two modes.           *)
(***************************************************************************)
ModesInit ==
  /\ impl \in Impls
  /\ LifeInit
  /\ BufRest
  /\ EvRest
  /\ ModeRest

\* src/src/lib.rs:568-574 and src/lib.rs:386-394  Termbox::set_input_mode
set_input_mode ==
  /\ is_open
  /\ \E m \in InputModes :
       /\ asked' = [asked EXCEPT !.imode = m]
       /\ IF impl = "crate"
          THEN LET prev_mode == tb_select_input_mode(tb_inputmode, TB_INPUT_CURRENT) IN
                 /\ tb_inputmode' = tb_select_input_mode(tb_inputmode, set_input_mode_code(prev_mode, m))
                 /\ mq' = Called("set_input_mode")
          ELSE LET imode == InputMode_to_c_int(m)
                   selected == tb_select_input_mode(tb_inputmode, imode)
               IN  /\ tb_inputmode' = selected
                   /\ mq' = IF selected = imode THEN Called("set_input_mode")
                            ELSE [NoMq EXCEPT !.op = "set_input_mode", !.outcome = "panic"]
  /\ UNCHANGED <<notMode, cq, tb_outputmode>>

\* src/src/lib.rs:577-592  Termbox::set_mouse_enabled
set_mouse_enabled ==
  /\ impl = "crate"
  /\ \E enabled \in BOOLEAN :
       LET prev_mode == tb_select_input_mode(tb_inputmode, TB_INPUT_CURRENT)
           new_mode == set_mouse_enabled_code(prev_mode, enabled)
       IN  /\ asked' = [asked EXCEPT !.mouse = enabled, !.mouse_set = TRUE]
           /\ tb_inputmode' = IF new_mode # prev_mode
                              THEN tb_select_input_mode(tb_inputmode, new_mode)
                              ELSE tb_inputmode
  /\ mq' = Called("set_mouse_enabled")
  /\ UNCHANGED <<notMode, cq, tb_outputmode>>

\* src/src/lib.rs:455-460 and src/lib.rs:234-244  input_mode / get_input_mode
input_mode ==
  /\ is_open
  /\ LET mode == decode_in(tb_select_input_mode(tb_inputmode, TB_INPUT_CURRENT)) IN
       mq' = IF mode.some
             THEN [NoMq EXCEPT !.op = "input_mode", !.outcome = "ok", !.mode = mode.val]
             ELSE [NoMq EXCEPT !.op = "input_mode", !.outcome = "panic"]
  /\ UNCHANGED <<notMode, cq, tb_inputmode, tb_outputmode, asked>>

\* src/src/lib.rs:463-468  Termbox::is_mouse_enabled
is_mouse_enabled ==
  /\ impl = "crate"
  /\ LET mode == tb_select_input_mode(tb_inputmode, TB_INPUT_CURRENT) IN
       mq' = [NoMq EXCEPT !.op = "is_mouse_enabled", !.outcome = "ok",
                          !.flag = AndMask(mode, TB_INPUT_MOUSE) # 0]
  /\ UNCHANGED <<notMode, cq, tb_inputmode, tb_outputmode, asked>>

\* src/src/lib.rs:595-599 and src/lib.rs:396-404  Termbox::set_output_mode
set_output_mode ==
  /\ is_open
  /\ \E m \in OutputModes :
       LET imode == encode_out(m)
           selected == tb_select_output_mode(tb_outputmode, imode)
       IN  /\ asked' = [asked EXCEPT !.omode = m]
           /\ tb_outputmode' = selected
           /\ mq' = IF impl = "crate" \/ selected = imode THEN Called("set_output_mode")
                    ELSE [NoMq EXCEPT !.op = "set_output_mode", !.outcome = "panic"]
  /\ UNCHANGED <<notMode, cq, tb_inputmode>>

\* src/src/lib.rs:487-492 and src/lib.rs:246-256  output_mode / get_output_mode
output_mode ==
  /\ is_open
  /\ LET mode == decode_out(tb_select_output_mode(tb_outputmode, TB_OUTPUT_CURRENT)) IN
       mq' = IF mode.some
             THEN [NoMq EXCEPT !.op = "output_mode", !.outcome = "ok", !.mode = mode.val]
             ELSE [NoMq EXCEPT !.op = "output_mode", !.outcome = "panic"]
  /\ UNCHANGED <<notMode, cq, tb_inputmode, tb_outputmode, asked>>

ModesNext ==
  \/ set_input_mode
  \/ set_mouse_enabled
  \/ input_mode
  \/ is_mouse_enabled
  \/ set_output_mode
  \/ output_mode

SpecModes == ModesInit /\ [][ModesNext]_vars

(***************************************************************************)
(* The lifecycle specification.                                            *)
(***************************************************************************)
Next ==
  \E t \in Threads :
    \/ open_acquire(t)
    \/ new_swap(t)
    \/ open_init(t)
    \/ new_init(t)
    \/ open_unlock(t)
    \/ new_store(t)
    \/ close(t)
    \/ drop_close(t)
    \/ drop_shutdown(t)
    \/ release(t)

Init ==
  /\ impl \in Impls
  /\ LifeInit
  /\ BufRest
  /\ EvRest
  /\ ModeRest

Spec == Init /\ [][Next]_vars

(***************************************************************************)
(* Claims about the session lifecycle, checked under Spec.                 *)
(***************************************************************************)
Live(t) == handle[t] = "open"

\* A thread that holds the lock: it has a live session, or it is between the
\* swap and the exit of open()/new(), or between tb_shutdown and the reset.
Holder(t) == Live(t) \/ pc[t] \in {"init", "fail", "unlock"}

\* C1: at most one session is live at any instant; while one is live the flag
\* is set, so that an open() attempted then gets no lock (it returns Locked)
\* and leaves the flag set; a thread that was refused holds nothing.
C1_Singleton ==
  /\ Cardinality({t \in Threads : Live(t)}) <= 1
  /\ Cardinality({t \in Threads : Holder(t)}) <= 1
  /\ (\E t \in Threads : Live(t)) =>
        /\ LOCK_FLAG
        /\ ~Lock_acquire(LOCK_FLAG).some
        /\ Lock_acquire(LOCK_FLAG).flag
  /\ \A t \in Threads :
        (pc[t] = "idle" /\ result[t] = Locked_result) => handle[t] = "none"

\* C1 witness: one thread holds the live session and another one's open() was
\* refused.
C1_Witness ==
  \E t, u \in Threads :
    /\ t # u
    /\ Live(t)
    /\ pc[u] = "idle"
    /\ result[u] = Locked_result

\* C2: once open()/new() has exited with an initialisation failure (tb_init
\* returned non-zero), the flag is not left set by that call: if it is set,
\* another thread holds it.
C2_InitFailureReleases ==
  \A t \in Threads :
    (pc[t] = "idle" /\ init_ret[t] \notin {NoCode, {0}}) =>
      (LOCK_FLAG => \E u \in Threads \ {t} : Holder(u))

\* C2 witness: an open() that met a code outside the known set has exited and
\* the flag is free.
C2_Witness ==
  \E t \in Threads :
    /\ pc[t] = "idle"
    /\ init_ret[t] = {-4}
    /\ ~LOCK_FLAG

\* C3 as claimed: tb_init's result decides a typed outcome: 0 a session, the
\* three known codes three distinct errors, and any other code an error value
\* of its own, never a crash.
C3_InitOutcomes ==
  \A t \in Threads :
    (pc[t] = "idle" /\ init_ret[t] # NoCode) =>
      CASE init_ret[t] = {0} -> result[t] = "Ok"
        [] init_ret[t] = {TB_EUNSUPPORTED_TERMINAL} ->
             result[t] = Err("unsupported terminal")
        [] init_ret[t] = {TB_EFAILED_TO_OPEN_TTY} ->
             result[t] = Err("failed to open tty")
        [] init_ret[t] = {TB_EPIPE_TRAP_ERROR} ->
             result[t] = Err("pipe trap error")
        [] OTHER ->
             result[t] \notin {Panic, "none", "Ok", Locked_result,
                               Err("unsupported terminal"),
                               Err("failed to open tty"),
                               Err("pipe trap error")}

\* C4: a session that was opened sees tb_shutdown exactly once and the reset
\* of the flag exactly once, however many times close() is called before the
\* drop; while it is open neither has happened.
C4_ShutdownOnce ==
  \A t \in Threads :
    /\ (handle[t] # "none") => (shutdowns[t] <= 1 /\ releases[t] <= 1)
    /\ (pc[t] = "idle" /\ handle[t] = "open") =>
          (shutdowns[t] = 0 /\ releases[t] = 0)
    /\ (pc[t] = "idle" /\ handle[t] \in {"closed", "dropped"}) =>
          (shutdowns[t] = 1 /\ releases[t] = 1)

\* C4 witness: a handle closed twice and then dropped.
C4_Witness ==
  \E t \in Threads :
    /\ pc[t] = "idle"
    /\ handle[t] = "dropped"
    /\ closes[t] >= 2
    /\ shutdowns[t] = 1

\* C5: whenever no thread holds a session or is inside open/close, the lock is
\* free, so the next open() is not refused; and an open() whose tb_init
\* returned 0 returned the session.
C5_FreeAfterClose ==
  /\ (\A u \in Threads : ~Holder(u)) =>
        (~LOCK_FLAG /\ Lock_acquire(LOCK_FLAG).some)
  /\ \A t \in Threads :
        (pc[t] = "idle" /\ init_ret[t] = {0}) => result[t] = "Ok"

\* C5 witness: a session was closed or dropped, and a session opened after it
\* is live.
C5_Witness ==
  \E t, u \in Threads :
    /\ t # u
    /\ pc[t] = "idle"
    /\ handle[t] \in {"closed", "dropped"}
    /\ Live(u)
    /\ result[u] = "Ok"

(***************************************************************************)
(* Claims about blit, checked under SpecBlit.                              *)
(***************************************************************************)
\* The buffer cell (c, r) lies in the requested rectangle.
InRect(c, r) ==
  /\ req.x <= c /\ c - req.x < req.w
  /\ req.y <= r /\ r - req.y < req.h

\* cells.len() >= w * h, the product taken in the integers
LenCovers == req.w <= req.len /\ req.h <= req.len /\ req.w * req.h <= req.len

\* The rectangle misses the buffer altogether.
RectOutside ==
  \/ req.x >= bw
  \/ req.y >= bh
  \/ (req.x < 0 /\ req.w <= -req.x)
  \/ (req.y < 0 /\ req.h <= -req.y)

\* C6: on an open session, a blit with w, h >= 1 and a slice of at least w*h
\* cells returns normally; the cells it wrote are exactly those of the
\* rectangle that lie in the buffer of the current width and height; cell
\* (x+cx, y+cy) holds cells[cy*w+cx], every other cell is as it was, and no
\* index outside the buffer or the slice was touched.
C6_BlitClipping ==
  (req.op = "blit" /\ is_open
     /\ req.w >= 1 /\ req.h >= 1 /\ LenCovers) =>
    /\ out.outcome = "ok"
    /\ \A r \in 0..(bh - 1), c \in 0..(bw - 1) :
         buf[r * bw + c] =
           IF InRect(c, r) THEN CellAt((r - req.y) * req.w + (c - req.x)) ELSE 0
    /\ {out.writes[i][1] : i \in DOMAIN out.writes} =
         {r * bw + c : <<c, r>> \in {p \in (0..(bw - 1)) \X (0..(bh - 1)) : InRect(p[1], p[2])}}
    /\ \A i \in DOMAIN out.writes :
         /\ out.writes[i][1] \in 0..(bw * bh - 1)
         /\ out.writes[i][2] \in 0..(req.len - 1)

\* C6 witness: after the buffer shrank, a rectangle that sticks out on the
\* left and on the right was blitted and part of it written.
C6_Witness ==
  /\ impl = "root" /\ req.op = "blit" /\ is_open /\ LenCovers
  /\ bw < MaxW
  /\ req.x < 0 /\ req.x + req.w > bw /\ req.h >= 1
  /\ out.outcome = "ok"
  /\ Len(out.writes) = bw

\* C7 as claimed: a blit with w < 1 or h < 1 (whatever the slice), or with a
\* rectangle that misses the buffer, writes no cell and does not panic.
C7_BlitNoOp ==
  (req.op = "blit" /\ is_open
     /\ (req.w < 1 \/ req.h < 1 \/ (RectOutside /\ LenCovers))) =>
    /\ out.outcome # "panic"
    /\ out.writes = <<>>
    /\ IsBlank(buf)

\* C8 as claimed: with w > 0 and h > 0, a slice shorter than w * h makes the
\* call panic before any cell is written.
C8_BlitLengthChecked ==
  (req.op = "blit" /\ req.w > 0 /\ req.h > 0 /\ ~LenCovers) =>
    /\ out.outcome = "panic"
    /\ out.writes = <<>>
    /\ IsBlank(buf)

(***************************************************************************)
(* Claims about the buffer view, checked under SpecView.                   *)
(***************************************************************************)
\* The product of two non-negative c_ints does not fit 32 bits:
\* a > (2^32 - 1) / b, with 2^32 - 1 = 2 * I32_MAX + 1.
Exceeds32(a, b) ==
  /\ a > 0
  /\ b > 1
  /\ a > 2 * (I32_MAX \div b) + (2 * (I32_MAX % b) + 1) \div b

\* The value of five digits modulo p, and the product a * b modulo p.
DigitsMod(d, p) ==
  LET r5 == d[5] % p
      r4 == (r5 * B15 + d[4]) % p
      r3 == (r4 * B15 + d[3]) % p
      r2 == (r3 * B15 + d[2]) % p
  IN  (r2 * B15 + d[1]) % p
ProductMod(a, b, p) == ((a % p) * (b % p)) % p

\* Five primes below 2^15: their product is above 2^62, so a value below
\* 2^62 is determined by its residues.
Primes == {32749, 32719, 32717, 32713, 32707}

\* The product of two non-negative c_ints, times the 8 bytes of a Cell, is
\* above isize::MAX: a * b >= 2^(bits - 4).  On 32 bits that is
\* a > (2^28 - 1) / b; on 64 bits the product has a digit at 2^60, the
\* digits being those the residues of C9 check.
BytesExceedIsize(a, b, bits) ==
  /\ a > 0
  /\ b > 0
  /\ IF bits = 64 THEN NatMul(a, b)[5] >= 1
     ELSE a > ((B15 * 8192 - 1) \div b)

\* C9: a cell_buffer / cell_buffer_mut call panics when the width or the
\* height the driver reports is negative or their product does not fit a
\* usize; otherwise the slice it makes has length exactly width * height for
\* the width and height reported during the call, and the call makes that
\* slice unless it takes more than isize::MAX bytes, where the call may also
\* abort the process.
C9_ViewLength ==
  (view.op \in {"cell_buffer", "cell_buffer_mut"}) =>
    IF bw < 0 \/ bh < 0 \/ (ptr_bits = 32 /\ Exceeds32(bw, bh))
    THEN view.outcome = "panic"
    ELSE /\ view.outcome \in {"ok", "abort"}
         /\ view.outcome = "abort" => BytesExceedIsize(bw, bh, ptr_bits)
         /\ view.outcome = "ok" =>
               /\ \A i \in 1..4 : view.len[i] \in 0..(B15 - 1)
               /\ view.len[5] \in 0..3
               /\ \A p \in Primes : DigitsMod(view.len, p) = ProductMod(bw, bh, p)

\* C9 witness: the product of the reported sizes does not fit 32 bits; on
\* the 32-bit target the call panicked.
C9_Witness ==
  /\ view.op = "cell_buffer_mut"
  /\ ptr_bits = 32
  /\ bw = Big /\ bh = Big
  /\ view.outcome = "panic"

(***************************************************************************)
(* Claims about event decoding, checked under SpecEvents.                  *)
(***************************************************************************)
\* The last call read a record from the driver and decoded it.
Decoded == call # "none" /\ ret > 0

\* C10: a record with the Key tag decodes to Event::Key with the same key,
\* one with the Resize tag to Event::Resize with the same width and height,
\* one with the Mouse tag and a known button to Event::Mouse with the same x
\* and y, and one with any tag the decoder does not know to no Event.
C10_DecodeTotal ==
  Decoded =>
    /\ raw.etype = TB_EVENT_KEY =>
         /\ dec.tag = "Some" /\ dec.val.kind = "Key" /\ dec.val.key = raw.key
         /\ ev = GotEvent(dec.val)
    /\ raw.etype = TB_EVENT_RESIZE =>
         /\ dec.tag = "Some" /\ dec.val.kind = "Resize"
         /\ dec.val.w = raw.w /\ dec.val.h = raw.h
         /\ ev = GotEvent(dec.val)
    /\ (raw.etype = TB_EVENT_MOUSE /\ TB_EVENT_MOUSE \in KnownKinds
          /\ MouseButton_from_raw(raw.key).some) =>
         /\ dec.tag = "Some" /\ dec.val.kind = "Mouse"
         /\ dec.val.x = raw.x /\ dec.val.y = raw.y
         /\ ev = GotEvent(dec.val)
    /\ raw.etype \notin KnownKinds =>
         /\ dec.tag = "None"
         /\ ev.outcome = "panic"

\* C10 witness: a mouse record with a known button, leftovers in the fields
\* it does not use, was decoded to a Mouse event.
C10_Witness ==
  /\ Decoded
  /\ raw.etype = TB_EVENT_MOUSE /\ raw.key = TB_KEY_MOUSE_WHEEL_DOWN
  /\ raw.w # 0 /\ raw.x # 0
  /\ dec.tag = "Some" /\ dec.val.kind = "Mouse"

\* The six key codes that name a mouse button.
KnownButtons ==
  {TB_KEY_MOUSE_LEFT, TB_KEY_MOUSE_RIGHT, TB_KEY_MOUSE_MIDDLE,
   TB_KEY_MOUSE_RELEASE, TB_KEY_MOUSE_WHEEL_UP, TB_KEY_MOUSE_WHEEL_DOWN}

\* C11: a Key record whose character value is a surrogate or lies above
\* U+10FFFF still decodes to Event::Key with the record's key, and its
\* character field is "no character" (None in src/src/lib.rs, the character
\* 0 in tb_event::to_safe_event); the call hands that event to its caller.
C11_InvalidChar ==
  (Decoded /\ raw.etype = TB_EVENT_KEY
     /\ ((55296 <= raw.ch /\ raw.ch <= 57343) \/ raw.ch > 1114111)) =>
    /\ dec.tag = "Some"
    /\ dec.val.kind = "Key"
    /\ dec.val.key = raw.key
    /\ dec.val.ch = 0
    /\ impl = "crate" => ~dec.val.ch_some
    /\ ev = GotEvent(dec.val)

\* C11 witness: a Key record with the surrogate U+D800 and a key code was
\* read and decoded.
C11_Witness ==
  /\ Decoded
  /\ raw.etype = TB_EVENT_KEY /\ raw.ch = 55296 /\ raw.key = 27
  /\ dec.tag = "Some"

\* C12: a Mouse record whose key code is none of the six button codes gives
\* no Event: the decoder does not answer Some, and the call ends in a panic.
C12_UnknownButton ==
  (Decoded /\ raw.etype = TB_EVENT_MOUSE /\ raw.key \notin KnownButtons) =>
    /\ dec.tag # "Some"
    /\ ev.outcome = "panic"
    /\ ev.val = NoEvent

\* C12 witness: a Mouse record with the key code next to the left button's
\* was read by src/src/lib.rs and the button unwrap panicked.
C12_Witness ==
  /\ Decoded /\ impl = "crate"
  /\ raw.etype = TB_EVENT_MOUSE /\ raw.key = TB_KEY_MOUSE_LEFT + 1
  /\ ev.outcome = "panic" /\ ev.at = "unwrap button"

(***************************************************************************)
(* Claims about the mode conversions, checked under SpecCodec.             *)
(***************************************************************************)
\* The codes that are the encoding of some mode.
InputCodes == {TB_INPUT_ESC, TB_INPUT_ALT}
OutputCodes == {TB_OUTPUT_NORMAL, TB_OUTPUT_256, TB_OUTPUT_216, TB_OUTPUT_GRAYSCALE}

\* decode(encode(m)) = m, and the encoding is one of the known codes
RoundTrips ==
  /\ cq.fn = "encode_input" => cq.some /\ cq.res = cq.mode /\ cq.code \in InputCodes
  /\ cq.fn = "encode_output" => cq.some /\ cq.res = cq.mode /\ cq.code \in OutputCodes

\* C13 as claimed: decode(encode(m)) = m for every input and output mode,
\* and decode fails for exactly the codes that are not the encoding of a
\* mode.
C13_ModeRoundTrip ==
  /\ RoundTrips
  /\ cq.fn = "decode_input" => (cq.some <=> cq.code \in InputCodes)
  /\ cq.fn = "decode_output" => (cq.some <=> cq.code \in OutputCodes)

\* C13 amended: decode(encode(m)) = m for every input and output mode; the
\* output decode, and the input decode of src/lib.rs, fail for exactly the
\* codes that are not an encoding; the input decode of src/src/lib.rs looks
\* at the two low bits of the code only: it fails exactly when they are
\* neither 01 nor 10, and otherwise gives the mode they encode.
C13_ModeRoundTripMasked ==
  /\ RoundTrips
  /\ (cq.fn = "decode_input" /\ impl = "root") => (cq.some <=> cq.code \in InputCodes)
  /\ (cq.fn = "decode_input" /\ impl = "crate") =>
       /\ cq.some <=> (cq.code % 4) \in InputCodes
       /\ cq.code % 4 = TB_INPUT_ESC => cq.res = "Esc"
       /\ cq.code % 4 = TB_INPUT_ALT => cq.res = "Alt"
  /\ cq.fn = "decode_output" => (cq.some <=> cq.code \in OutputCodes)

\* C13 witness: src/src/lib.rs decoded the input code 5 (Esc with the mouse
\* flag), which is no mode's encoding, to a mode.
C13_Witness ==
  /\ impl = "crate"
  /\ cq.fn = "decode_input" /\ cq.code = 5
  /\ cq.some /\ cq.res = "Esc"

(***************************************************************************)
(* Claims about the mode calls, checked under SpecModes.                   *)
(***************************************************************************)
\* The input mode in force by the calls made: the argument of the latest
\* set_input_mode, Esc (the driver's default) before the first.
WantMode == IF asked.imode = "" THEN "Esc" ELSE asked.imode

\* C14: after any sequence of set_input_mode and set_mouse_enabled calls,
\* input_mode() returns the argument of the latest set_input_mode,
\* is_mouse_enabled() that of the latest set_mouse_enabled (false before the
\* first), and the driver's mode is the code of that mode plus the mouse flag
\* exactly when mouse is enabled: neither call changes the other's part, and
\* repeating a call changes nothing.
C14_MouseToggleIndependent ==
  /\ mq.op = "input_mode" => mq.outcome = "ok" /\ mq.mode = WantMode
  /\ mq.op = "is_mouse_enabled" => mq.flag = asked.mouse
  /\ mq.op \in {"set_input_mode", "set_mouse_enabled"} => mq.outcome = "ok"
  /\ tb_inputmode =
       (IF WantMode = "Esc" THEN TB_INPUT_ESC ELSE TB_INPUT_ALT)
         + (IF asked.mouse THEN TB_INPUT_MOUSE ELSE 0)

\* C14 witness: with mouse enabled and Alt selected after it,
\* is_mouse_enabled() was asked and answered true.
C14_Witness ==
  /\ impl = "crate"
  /\ asked.imode = "Alt" /\ asked.mouse
  /\ mq.op = "is_mouse_enabled" /\ mq.flag
  /\ tb_inputmode = TB_INPUT_ALT + TB_INPUT_MOUSE

\* The last event call went to the driver (a closed src/lib.rs handle does
\* not).
ReadDriver == call # "none" /\ (impl = "root" => is_open)

\* C15: peek_event gives "no event" exactly when the driver returned 0, a
\* panic when it returned a negative code, and on a positive code the
\* decoded event, or a panic when the record did not decode; poll_event gives
\* the decoded event on a positive code and a panic on zero or a negative
\* code, and never "no event".  On a code that is not positive the record is
\* not decoded.
C15_RetrievalOutcomes ==
  ReadDriver =>
    /\ call = "peek_event" => (ev.outcome = "no event" <=> ret = 0)
    /\ call = "poll_event" => ev.outcome # "no event"
    /\ ret < 0 => ev.outcome = "panic" /\ dec = NoDec
    /\ (ret = 0 /\ call = "poll_event") => ev.outcome = "panic" /\ dec = NoDec
    /\ ret > 0 =>
         /\ dec.tag = "Some" => ev = GotEvent(dec.val)
         /\ dec.tag # "Some" => ev.outcome = "panic"

\* C15 witness: the driver returned 0 to poll_event, which panicked.
C15_Witness ==
  /\ ReadDriver
  /\ call = "poll_event" /\ ret = 0
  /\ ev.outcome = "panic" /\ ev.at = "tb_poll_event returned"

(***************************************************************************)
(* Claims about a closed handle, checked under SpecClosed.                 *)
(***************************************************************************)
BufferCalls ==
  {"blit", "change_cell", "put_cell", "clear", "present", "set_clear_attributes"}

\* C16 as claimed: on a closed handle, blit, change_cell, put_cell, clear,
\* present and set_clear_attributes return normally for every argument,
\* without a driver call and without writing a cell.
C16_ClosedNoOps ==
  (~is_open /\ req.op \in BufferCalls) =>
    /\ out.outcome = "ok"
    /\ out.drv = <<>>
    /\ out.writes = <<>>
    /\ buf = Blank(0, 0)

(***************************************************************************)
(* Lifecycle ordering, checked under Spec.                                 *)
(***************************************************************************)
\* C17: a thread is about to call tb_init only with the flag set by its own
\* swap, the driver down and no other thread holding a session, inside
\* open()/new() or inside a teardown; a thread about to reset the flag in a
\* teardown has had its tb_shutdown return, with the flag still set.  So in
\* every interleaving no tb_init falls between another session's tb_init and
\* the end of that session's tb_shutdown.
C17_LifecycleOrder ==
  \A t \in Threads :
    /\ pc[t] = "init" =>
          /\ LOCK_FLAG
          /\ tb = "down"
          /\ \A u \in Threads \ {t} : ~Holder(u)
    /\ pc[t] = "unlock" =>
          /\ LOCK_FLAG
          /\ tb = "down"
          /\ shutdowns[t] = 1
          /\ releases[t] = 0
          /\ \A u \in Threads \ {t} : ~Holder(u)
    /\ Live(t) => (tb = "up" /\ LOCK_FLAG)

\* C17 witness: a thread is between its tb_shutdown and the reset of the
\* flag, and another thread's open() was refused meanwhile.
C17_Witness ==
  \E t, u \in Threads :
    /\ t # u
    /\ pc[t] = "unlock"
    /\ shutdowns[t] = 1
    /\ pc[u] = "idle"
    /\ result[u] = Locked_result

(***************************************************************************)
(* One read per event call, checked under SpecEvents.                      *)
(***************************************************************************)
\* C18: a poll_event or peek_event that reaches the driver reads it exactly
\* once, and what it hands back is made of that read alone; when the record
\* read does not decode, the call panics without a further read.
C18_OneRead ==
  ReadDriver =>
    /\ nreads = 1
    /\ dec = (IF ret > 0 THEN Decode(raw) ELSE NoDec)
    /\ ev = (IF call = "peek_event" THEN peek_result(ret, dec)
             ELSE poll_result(ret, dec))
    /\ (ret > 0 /\ dec.tag # "Some") => ev.outcome = "panic"

\* C18 witness: a call read a record that does not decode, panicked and
\* read the driver once.
C18_Witness ==
  /\ ReadDriver
  /\ ret > 0
  /\ dec.tag # "Some"
  /\ ev.outcome = "panic"
  /\ nreads = 1

(***************************************************************************)
(* The alt flag, checked under SpecEvents.                                 *)
(***************************************************************************)
\* The alt flag of a decoded Key event: the alt field of src/src/lib.rs, and
\* mods.contains(MOD_ALT) on the KeySym of src/lib.rs.
AltFlag(e) == IF impl = "crate" THEN e.alt ELSE BitAnd(e.mods, MOD_ALT) # 0

\* C19 as claimed: the alt flag decoded from a Key record is true exactly
\* when bit 0x01 of the record's modifier byte is set, whatever its other
\* bits are.
C19_AltBit ==
  (Decoded /\ raw.etype = TB_EVENT_KEY) =>
    /\ dec.tag = "Some"
    /\ AltFlag(dec.val) <=> (BitAnd(raw.emod, TB_MOD_ALT) # 0)

(***************************************************************************)
(* Field independence of the decoder, checked under SpecEvents.            *)
(***************************************************************************)
\* What a field outside the record's kind may hold.
Leftovers == {-1, 0, 7}

\* The records that agree with r on its kind tag and on the fields of that
\* kind, the other fields holding anything.
SameKindFields(r) ==
  IF r.etype = TB_EVENT_KEY
  THEN {[r EXCEPT !.w = a, !.h = b, !.x = c, !.y = d] :
          a \in Leftovers, b \in Leftovers, c \in Leftovers, d \in Leftovers}
  ELSE IF r.etype = TB_EVENT_RESIZE
  THEN {[r EXCEPT !.emod = a, !.key = b, !.ch = b, !.x = c, !.y = d] :
          a \in Leftovers \ {-1}, b \in Leftovers \ {-1},
          c \in Leftovers, d \in Leftovers}
  ELSE IF r.etype = TB_EVENT_MOUSE
  THEN {[r EXCEPT !.emod = a, !.ch = b, !.w = c, !.h = d] :
          a \in Leftovers \ {-1}, b \in Leftovers \ {-1},
          c \in Leftovers, d \in Leftovers}
  ELSE {r}

\* C20: the result of decoding a record is the result of decoding every
\* record with the same kind tag and the same fields of that kind, whatever
\* the other fields hold; and a Key or a Resize record decodes to an event
\* whatever its x and y fields hold.
C20_FieldIndependence ==
  Decoded =>
    /\ \A r2 \in SameKindFields(raw) : Decode(r2) = dec
    /\ raw.etype \in {TB_EVENT_KEY, TB_EVENT_RESIZE} =>
          \A r2 \in SameKindFields(raw) : Decode(r2).tag = "Some"

\* C20 witness: a Key record whose width, height, x and y fields hold
\* leftovers was decoded to a Key event.
C20_Witness ==
  /\ Decoded
  /\ raw.etype = TB_EVENT_KEY
  /\ raw.x # 0
  /\ raw.y # 0
  /\ raw.w # 0
  /\ dec.tag = "Some"
  /\ dec.val.kind = "Key"

=============================================================================
